---------------------------- MODULE Spec2Model ----------------------------
(***************************************************************************)
(* A model of ts2dart's FacadeConverter (lib/facade_converter.ts) and      *)
(* DeclarationTranspiler: the symbol-qualified substitution engine and the *)
(* structural declaration emitter.                                         *)
(*                                                                         *)
(* Strings that the code takes apart are sequences of tokens: a file name  *)
(* is a sequence of path tokens ("../", "node_modules/", a module path,    *)
(* ".d", ".ts"), a qualified name is the sequence of its dot-separated     *)
(* segments.  JavaScript values a method returns are the strings "true",   *)
(* "false", "undefined", "null"; "TypeError" is a thrown TypeError.  The    *)
(* type checker's symbol table is part of the state and never changes; the  *)
(* handler tables are part of the state too.                               *)
(***************************************************************************)
EXTENDS Integers, Sequences, FiniteSets

VARIABLES symtab, tables, tc, locating, candidateProperties, candidateTypes,
          enforceUnderscoreConventions, genericMethodDeclDepth, stack, mode, last

vars == <<symtab, tables, tc, locating, candidateProperties, candidateTypes,
          enforceUnderscoreConventions, genericMethodDeclDepth, stack, mode, last>>

\* ------------------------------------------------------------------ bounds
MaxNest == 2
MaxParams == 3
MaxDecls == 3
MaxSteps == 3
MaxArgs == 2

\* ------------------------------------------------------- handler registry
Promise_catch == <<"Promise", "catch">>
Promise_then == <<"Promise", "then">>
Promise_ == <<"Promise">>

es6Promises == {Promise_catch, Promise_then, Promise_}

es6Collections ==
    { <<"Map", "set">>, <<"Map", "get">>, <<"Map", "has">>, <<"Map", "delete">>,
      <<"Map", "forEach">>, <<"Array", "find">> }

\* merge(this.es6Promises, {...}): the union of the keys
stdlibHandlers ==
    es6Promises \cup
    { <<"Array", "push">>, <<"Array", "pop">>, <<"Array", "shift">>,
      <<"Array", "unshift">>, <<"Array", "map">>, <<"Array", "filter">>,
      <<"Array", "some">>, <<"Array", "slice">>, <<"Array", "splice">>,
      <<"Array", "concat">>, <<"Array", "join">>, <<"Array", "reduce">>,
      <<"ArrayConstructor", "isArray">>, <<"RegExp", "test">>,
      <<"RegExp", "exec">>, <<"String", "substr">> }

M_lib == <<"lib">>
M_lib_es6 == <<"lib.es6">>
M_es6_promise == <<"es6-promise/es6-promise">>
M_es6_shim == <<"es6-shim/es6-shim">>
M_es6_collections == <<"es6-collections/es6-collections">>
M_globals == <<"angular2/manual_typings/globals">>
M_collection == <<"angular2/src/facade/collection">>
M_forward_ref == <<"angular2/src/core/di/forward_ref">>
M_lang == <<"angular2/src/facade/lang">>
M_rxjs == <<"rxjs/Observable">>

\* module -> the qualified names that have a call handler
callHandlers ==
    [m \in {M_lib, M_lib_es6, M_es6_promise, M_es6_shim, M_es6_collections,
            M_globals, M_collection, M_forward_ref, M_lang} |->
       CASE m = M_lib -> stdlibHandlers
         [] m = M_lib_es6 -> stdlibHandlers
         [] m = M_es6_promise -> es6Promises
         [] m = M_es6_shim -> es6Promises \cup es6Collections
         [] m = M_es6_collections -> es6Collections
         [] m = M_globals -> es6Collections
         [] m = M_collection -> { <<"Map">> }
         [] m = M_forward_ref -> { <<"forwardRef">> }
         [] m = M_lang -> { <<"CONST_EXPR">>, <<"normalizeBlank">> }]

es6CollectionsProp == { <<"Map", "size">> }

es6PromisesProp == { <<"resolve">>, <<"reject">> }

propertyHandlers ==
    [m \in {M_es6_shim, M_es6_collections, M_es6_promise} |->
       IF m = M_es6_promise THEN es6PromisesProp ELSE es6CollectionsProp]

\* the keys of stdlibTypeReplacements and their replacements
stdlibTypeReplacements ==
    [q \in { <<"Date">>, <<"Array">>, <<"XMLHttpRequest">>, <<"Uint8Array">>,
             <<"ArrayBuffer">>, <<"Promise">>, <<"Node">>, <<"Text">>,
             <<"Element">>, <<"Event">>, <<"HTMLElement">>,
             <<"HTMLAnchorElement">>, <<"HTMLStyleElement">>,
             <<"HTMLInputElement">>, <<"HTMLDocument">>, <<"History">>,
             <<"Location">> } |->
       CASE q = <<"Date">> -> "DateTime"
         [] q = <<"Array">> -> "List"
         [] q = <<"XMLHttpRequest">> -> "HttpRequest"
         [] q = <<"Uint8Array">> -> "Uint8List"
         [] q = <<"ArrayBuffer">> -> "ByteBuffer"
         [] q = <<"Promise">> -> "Future"
         [] OTHER -> "dynamic"]

TS_TO_DART_TYPENAMES ==
    [m \in {M_lib, M_lib_es6, M_lang, M_rxjs, M_es6_promise, M_es6_shim} |->
       CASE m = M_lib -> stdlibTypeReplacements
         [] m = M_lib_es6 -> stdlibTypeReplacements
         [] m = M_lang -> [q \in { <<"Date">> } |-> "DateTime"]
         [] m = M_rxjs -> [q \in { <<"Observable">> } |-> "Stream"]
         [] OTHER -> [q \in { <<"Promise">> } |-> "Future"]]

callHandlerReplaceNew ==
    [m \in {M_es6_promise, M_es6_shim} |-> [q \in { <<"Promise">> } |-> TRUE]]

\* the tables a FacadeConverter is created with
registry ==
    [callHandlers |-> callHandlers,
     propertyHandlers |-> propertyHandlers,
     TS_TO_DART_TYPENAMES |-> TS_TO_DART_TYPENAMES,
     callHandlerReplaceNew |-> callHandlerReplaceNew]

\* propName.substring(propName.lastIndexOf('.') + 1)
lastSegment(q) == q[Len(q)]

\* the names extractPropertyNames adds to a candidate set for table m
\* (m maps a module to the set of its qualified names)
extractPropertyNames(m) ==
    UNION { { lastSegment(q) : q \in m[f] } : f \in DOMAIN m }

\* the candidate sets the constructor fills
constructor ==
    [candidateProperties |->
       extractPropertyNames(callHandlers) \cup extractPropertyNames(propertyHandlers),
     candidateTypes |->
       extractPropertyNames([f \in DOMAIN TS_TO_DART_TYPENAMES |->
                               DOMAIN TS_TO_DART_TYPENAMES[f]])]

\* --------------------------------------------------- the type checker's world
\* source files, as the checker names them
F_lib == <<"lib", ".d", ".ts">>
F_lib_es6 == <<"lib.es6", ".d", ".ts">>
F_es6_promise == <<"../", "../", "node_modules/", "es6-promise/es6-promise", ".d", ".ts">>
F_es6_shim == <<"/base/", "node_modules/", "es6-shim/es6-shim", ".d", ".ts">>
F_es6_collections == <<"typings/", "es6-collections/es6-collections", ".d", ".ts">>
F_collection == <<"/base/", "angular2/src/facade/collection", ".ts">>
F_lang == <<"angular2/src/facade/lang", ".ts">>
F_rxjs == <<"node_modules/", "rxjs/Observable", ".d", ".ts">>
F_app == <<"/base/", "app/main", ".ts">>

\* the typingsRoot the converter was constructed with
typingsRoot == <<"typings/">>

\* the base path of the transpiler's options
basePath == <<"/base/">>

NoSymbol == "undefined"

\* A ts.Symbol: name, the checker's fully qualified name, flags, the symbol an
\* alias stands for, valueDeclaration (a sequence of 0 or 1 source files) and
\* declarations (the source file of each).
Sym(name, fqn, flags, alias, valueDecl, decls) ==
    [name |-> name, fqn |-> fqn, flags |-> flags, alias |-> alias,
     valueDeclaration |-> valueDecl, declarations |-> decls]

Symbols ==
    { "Array.push", "MyList.push", "Array", "Array@es6", "Promise",
      "Promise@es6", "Promise.then", "Map", "Map.size", "Map.get",
      "CONST_EXPR", "Date", "Observable", "resolve", "orphan",
      "T", "T:Promise", "import Promise", "P", "PP", "aliasOfOrphan", "M",
      "Array@augmented", "Array@orphan" }

checkerSymbols ==
    [s \in Symbols |->
       CASE s = "Array.push" ->
              Sym("push", <<"Array", "push">>, {"Method"}, NoSymbol, <<F_lib>>, <<F_lib>>)
         [] s = "MyList.push" ->
              Sym("push", <<"MyList", "push">>, {"Method"}, NoSymbol, <<F_app>>, <<F_app>>)
         [] s = "Array" ->
              Sym("Array", <<"Array">>, {"Interface", "Variable"}, NoSymbol,
                  <<F_lib>>, <<F_lib, F_lib>>)
         [] s = "Array@es6" ->
              Sym("Array", <<"Array">>, {"Interface", "Variable"}, NoSymbol,
                  <<F_lib_es6>>, <<F_lib_es6, F_lib_es6>>)
         [] s = "Promise" ->
              Sym("Promise", <<"\"es6-promise/es6-promise\"", "Promise">>, {"Class"},
                  NoSymbol, <<F_es6_promise>>, <<F_es6_promise>>)
         [] s = "Promise@es6" ->
              Sym("Promise", <<"Promise">>, {"Interface", "Variable"}, NoSymbol,
                  <<F_lib_es6>>, <<F_lib_es6, F_lib_es6>>)
         [] s = "Promise.then" ->
              Sym("then", <<"Promise", "then">>, {"Method"}, NoSymbol,
                  <<F_es6_promise>>, <<F_es6_promise>>)
         [] s = "Map" ->
              Sym("Map", <<"\"angular2/src/facade/collection\"", "Map">>, {"Variable"},
                  NoSymbol, <<F_collection>>, <<F_collection>>)
         [] s = "Map.size" ->
              Sym("size", <<"Map", "size">>, {"Property"}, NoSymbol,
                  <<F_es6_shim>>, <<F_es6_shim>>)
         [] s = "Map.get" ->
              Sym("get", <<"Map", "get">>, {"Method"}, NoSymbol,
                  <<F_es6_collections>>, <<F_es6_collections>>)
         [] s = "CONST_EXPR" ->
              Sym("CONST_EXPR", <<"\"angular2/src/facade/lang\"", "CONST_EXPR">>,
                  {"Function"}, NoSymbol, <<F_lang>>, <<F_lang>>)
         [] s = "Date" ->
              \* a pure declaration: no value declaration, one declaration
              Sym("Date", <<"Date">>, {"Interface"}, NoSymbol, <<>>, <<F_lib>>)
         [] s = "Observable" ->
              Sym("Observable", <<"\"rxjs/Observable\"", "Observable">>, {"Class"},
                  NoSymbol, <<F_rxjs>>, <<F_rxjs>>)
         [] s = "resolve" ->
              Sym("resolve", <<"resolve">>, {"Property"}, NoSymbol,
                  <<F_es6_promise>>, <<F_es6_promise>>)
         [] s = "orphan" ->
              \* a symbol with no declaration at all
              Sym("push", <<"Array", "push">>, {"Method"}, NoSymbol, <<>>, <<>>)
         [] s = "T" ->
              \* a type parameter
              Sym("T", <<"T">>, {"TypeParameter"}, NoSymbol, <<>>, <<F_app>>)
         [] s = "T:Promise" ->
              \* a type parameter that is named Promise
              Sym("Promise", <<"Promise">>, {"TypeParameter"}, NoSymbol, <<>>, <<F_app>>)
         [] s = "import Promise" ->
              \* import {Promise} from 'es6-promise': an alias of the same name
              Sym("Promise", <<"Promise">>, {"Alias"}, "Promise", <<>>, <<F_app>>)
         [] s = "P" ->
              Sym("P", <<"P">>, {"Alias"}, "Promise", <<>>, <<F_app>>)
         [] s = "PP" ->
              Sym("PP", <<"PP">>, {"Alias"}, "P", <<>>, <<F_app>>)
         [] s = "aliasOfOrphan" ->
              Sym("push", <<"push">>, {"Alias"}, "orphan", <<>>, <<F_app>>)
         [] s = "M" ->
              Sym("M", <<"M">>, {"Alias"}, "Map", <<>>, <<F_app>>)
         [] s = "Array@augmented" ->
              \* an interface of the library that a file of the program adds to
              Sym("Array", <<"Array">>, {"Interface", "Variable"}, NoSymbol,
                  <<F_lib>>, <<F_app, F_lib, F_lib>>)
         [] s = "Array@orphan" ->
              \* a type without any declaration
              Sym("Array", <<"Array">>, {"Interface"}, NoSymbol, <<>>, <<>>)]

\* symbol.flags & ts.SymbolFlags.Alias
isAlias(s) == "Alias" \in symtab[s].flags

\* this.tc.getAliasedSymbol(symbol)
getAliasedSymbol(s) == symtab[s].alias

\* the number of alias steps from s to a symbol that is no alias
RECURSIVE aliasChainLength(_)
aliasChainLength(s) ==
    IF isAlias(s) THEN 1 + aliasChainLength(getAliasedSymbol(s)) ELSE 0

\* ------------------------------------------------- canonical symbol locator
Drop(f, n) == SubSeq(f, n + 1, Len(f))

IsPrefix(p, f) == Len(p) <= Len(f) /\ SubSeq(f, 1, Len(p)) = p

\* path.relative(base, fileName) of the transpiler
getRelativeFileName(f) ==
    IF IsPrefix(basePath, f) THEN Drop(f, Len(basePath)) ELSE f

\* .replace(/(\.d)?\.ts$/, '')
stripTsSuffix(f) ==
    IF Len(f) >= 1 /\ f[Len(f)] = ".ts"
    THEN IF Len(f) >= 2 /\ f[Len(f) - 1] = ".d"
         THEN SubSeq(f, 1, Len(f) - 2)
         ELSE SubSeq(f, 1, Len(f) - 1)
    ELSE f

\* the number of leading "../" of f
RECURSIVE leadingDotDots(_)
leadingDotDots(f) ==
    IF Len(f) >= 1 /\ f[1] = "../" THEN 1 + leadingDotDots(Drop(f, 1)) ELSE 0

\* .replace(FACADE_NODE_MODULES_PREFIX, ''), /^(\.\.\/)*node_modules\//
stripNodeModulesPrefix(f) ==
    LET k == leadingDotDots(f)
    IN  IF Len(f) > k /\ f[k + 1] = "node_modules/" THEN Drop(f, k + 1) ELSE f

\* .replace(this.typingsRootRegex, ''), the regex being '^' + typingsRoot
stripTypingsRoot(f) ==
    IF IsPrefix(typingsRoot, f) THEN Drop(f, Len(typingsRoot)) ELSE f

canonicalFileName(f) ==
    stripTypingsRoot(stripNodeModulesPrefix(stripTsSuffix(getRelativeFileName(f))))

\* this.reportError(n, message): the error is recorded, translation goes on
reportError(errs, kind, detail) == Append(errs, <<kind, detail>>)

NotFound == [found |-> FALSE, fileName |-> <<>>, qname |-> <<>>]

\* a mutant of followAliases: an if instead of the while
followAliases_once(s) == IF isAlias(s) THEN getAliasedSymbol(s) ELSE s

\* while (symbol.flags & Alias) symbol = this.tc.getAliasedSymbol(symbol)
RECURSIVE followAliases(_)
followAliases(s) ==
    IF isAlias(s) THEN followAliases(getAliasedSymbol(s)) ELSE s

\* the qualified name: the bare name for a class, function or variable
qualifiedName(sym) ==
    IF sym.flags \cap {"Class", "Function", "Variable"} # {}
    THEN <<sym.name>>
    ELSE sym.fqn

\* a mutant of getFileAndName: the first declaration is taken even when there
\* is a value declaration
getFileAndName_firstDeclaration(originalSymbol) ==
    LET symbol == symtab[followAliases(originalSymbol)]
    IN  IF symbol.declarations = <<>>
        THEN [loc |-> NotFound,
              errs |-> reportError(<<>>, "no declarations for symbol",
                                   symtab[originalSymbol].name)]
        ELSE [loc |-> [found |-> TRUE,
                       fileName |-> canonicalFileName(symbol.declarations[1]),
                       qname |-> qualifiedName(symbol)],
              errs |-> <<>>]

\* getFileAndName after its loop, symbol being the symbol the loop ended with:
\* [loc, errs], loc = NotFound for null
declarationKey(originalSymbol, terminal) ==
    LET symbol == symtab[terminal]
    IN  IF symbol.valueDeclaration = <<>> /\ symbol.declarations = <<>>
        THEN [loc |-> NotFound,
              errs |-> reportError(<<>>, "no declarations for symbol",
                                   symtab[originalSymbol].name)]
        ELSE LET decl == IF symbol.valueDeclaration # <<>>
                         THEN symbol.valueDeclaration[1]
                         ELSE symbol.declarations[1]
             IN  [loc |-> [found |-> TRUE,
                           fileName |-> canonicalFileName(decl),
                           qname |-> qualifiedName(symbol)],
                  errs |-> <<>>]

\* getFileAndName(n, originalSymbol), from the call to the return
getFileAndName(originalSymbol) ==
    declarationKey(originalSymbol, followAliases(originalSymbol))

\* ------------------------------------------------------ substitution engine
\* JavaScript's !v and v is truthy, on the values a handler returns
Truthy(v) == v = "true"

\* a mutant of Not: the handler's own result is returned (handler && handler(c))
Not_dropped(v) == v

Not(v) == IF Truthy(v) THEN "false" ELSE "true"

\* what one operation did: its return value, the text it emitted, the errors
\* it reported, its getSymbolAtLocation calls and the rules it invoked
Result(op, in, ret, out, errs, resolves, rules, aux) ==
    [op |-> op, in |-> in, ret |-> ret, out |-> out, errs |-> errs,
     resolves |-> resolves, rules |-> rules, aux |-> aux]

Idle == Result("idle", <<>>, "undefined", <<>>, <<>>, 0, <<>>, <<>>)

\* a mutant of reportMissingType: nothing is reported
reportMissingType_silent(errs, ident) == errs

\* reportMissingType(n, ident)
reportMissingType(errs, ident) == reportError(errs, "Untyped property access", ident)

\* a mutant of isCandidateProperty: the pre-filter is missing
isCandidateProperty_always(ident) == TRUE

\* this.candidateProperties.hasOwnProperty(ident)
isCandidateProperty(ident) == ident \in candidateProperties

\* this.candidateTypes.hasOwnProperty(ident)
isCandidateType(ident) == ident \in candidateTypes

\* getCallInformation(c): symbol = NoSymbol stands for the result {}
getCallInformation(c) ==
    IF c.exprKind = "Identifier"
    THEN IF ~isCandidateProperty(c.ident)
         THEN [symbol |-> NoSymbol, errs |-> <<>>, resolves |-> 0]
         ELSE IF c.symbol = NoSymbol
              THEN [symbol |-> NoSymbol, errs |-> reportMissingType(<<>>, c.ident),
                    resolves |-> 1]
              ELSE [symbol |-> c.symbol, errs |-> <<>>, resolves |-> 1]
    ELSE IF c.exprKind = "PropertyAccessExpression"
         THEN IF ~isCandidateProperty(c.ident)
              THEN [symbol |-> NoSymbol, errs |-> <<>>, resolves |-> 0]
              ELSE \* no symbol: the error is left to the property access handling
                   [symbol |-> c.symbol, errs |-> <<>>, resolves |-> 1]
         ELSE [symbol |-> NoSymbol, errs |-> <<>>, resolves |-> 0]

\* getHandler(n, symbol, m): handler is "null", "undefined" or "function"; m maps
\* a module to the set of qualified names it has a handler for
getHandler(symbol, m) ==
    LET fn == getFileAndName(symbol)
        loc == fn.loc
    IN  IF ~loc.found
        THEN [handler |-> "null", loc |-> loc, errs |-> fn.errs]
        ELSE IF loc.fileName \notin DOMAIN m
             THEN [handler |-> "null", loc |-> loc, errs |-> fn.errs]
             ELSE IF loc.qname \notin m[loc.fileName]
                  THEN [handler |-> "undefined", loc |-> loc, errs |-> fn.errs]
                  ELSE [handler |-> "function", loc |-> loc, errs |-> fn.errs]

\* a mutant of callHandler: the Map rule emits its literal before it looks for
\* the const expression
callHandler_emitFirst(fileName, qname, c) ==
    IF fileName = M_collection /\ qname = <<"Map">>
    THEN [ret |-> IF c.insideConst THEN "false" ELSE "true", out |-> <<"{ }">>,
          errs |-> <<>>]
    ELSE [ret |-> "undefined",
          out |-> <<"visit(context)", "rule", lastSegment(qname)>>,
          errs |-> <<>>]

\* the call handler registered for (fileName, qname), applied to call c:
\* ret is what the handler returns ("true": it declined)
callHandler(fileName, qname, c) ==
    IF qname = Promise_
    THEN IF c.kind # "NewExpression"
         THEN [ret |-> "true", out |-> <<>>, errs |-> <<>>]
         ELSE [ret |-> "undefined",
               out |-> <<"(() {", "Completer completer = new Completer();",
                         "(()", "visit(callback.body)", ")();",
                         "return completer.future;", "})()">>,
               errs |-> <<>>]
    ELSE IF fileName = M_collection /\ qname = <<"Map">>
         THEN IF ~c.insideConst
              THEN [ret |-> "true", out |-> <<>>, errs |-> <<>>]
              ELSE [ret |-> "false", out |-> <<"{ }">>,
                    errs |-> IF c.nargs > 0
                             THEN reportError(<<>>, "Arguments on a Map constructor in a const are unsupported", "Map")
                             ELSE <<>>]
         ELSE IF qname = <<"String", "substr">>
              THEN [ret |-> "undefined",
                    out |-> <<"visit(context)", ".", "substr", "(", ")">>,
                    errs |-> reportError(<<>>, "substr is unsupported", "substr")]
              ELSE [ret |-> "undefined",
                    out |-> <<"visit(context)", "rule", lastSegment(qname)>>,
                    errs |-> <<>>]

\* the property handler registered for qname, applied to a property access
propertyHandler(qname) ==
    [ret |-> "undefined",
     out |-> <<"visit(p.expression)", ".",
               CASE qname = <<"Map", "size">> -> "length"
                 [] qname = <<"resolve">> -> "value"
                 [] OTHER -> "error">>,
     errs |-> <<>>]

maybeHandleCall(c) ==
    IF ~tc
    THEN Result("maybeHandleCall", c, "false", <<>>, <<>>, 0, <<>>, <<>>)
    ELSE LET ci == getCallInformation(c)
         IN  IF ci.symbol = NoSymbol
             THEN Result("maybeHandleCall", c, "false", <<>>, ci.errs, ci.resolves,
                         <<>>, <<>>)
             ELSE LET h == getHandler(ci.symbol, tables.callHandlers)
                  IN  IF h.handler # "function"
                      THEN \* handler && ... is the missing handler itself
                           Result("maybeHandleCall", c, h.handler, <<>>,
                                  ci.errs \o h.errs, ci.resolves, <<>>, <<>>)
                      ELSE LET r == callHandler(h.loc.fileName, h.loc.qname, c)
                           IN  Result("maybeHandleCall", c, Not(r.ret), r.out,
                                      ci.errs \o h.errs \o r.errs, ci.resolves,
                                      << <<h.loc.fileName, h.loc.qname>> >>, <<>>)

handlePropertyAccess(pa) ==
    IF ~tc
    THEN Result("handlePropertyAccess", pa, "undefined", <<>>, <<>>, 0, <<>>, <<>>)
    ELSE IF ~isCandidateProperty(pa.ident)
         THEN Result("handlePropertyAccess", pa, "false", <<>>, <<>>, 0, <<>>, <<>>)
         ELSE IF pa.symbol = NoSymbol
              THEN Result("handlePropertyAccess", pa, "false", <<>>,
                          reportMissingType(<<>>, pa.ident), 1, <<>>, <<>>)
              ELSE LET h == getHandler(pa.symbol, tables.propertyHandlers)
                   IN  IF h.handler # "function"
                       THEN Result("handlePropertyAccess", pa, h.handler, <<>>,
                                   h.errs, 1, <<>>, <<>>)
                       ELSE LET r == propertyHandler(h.loc.qname)
                            IN  Result("handlePropertyAccess", pa, Not(r.ret), r.out,
                                       h.errs \o r.errs, 1,
                                       << <<h.loc.fileName, h.loc.qname>> >>, <<>>)

\* a mutant of replacesNew: the module's entry is taken for the name's
replacesNew_anyName(loc) == loc.fileName \in DOMAIN tables.callHandlerReplaceNew

\* the end of shouldEmitNew: whether callHandlerReplaceNew marks loc
replacesNew(loc) ==
    IF loc.fileName \notin DOMAIN tables.callHandlerReplaceNew
    THEN FALSE
    ELSE LET fileSubs == tables.callHandlerReplaceNew[loc.fileName]
         IN  loc.qname \in DOMAIN fileSubs /\ fileSubs[loc.qname]

shouldEmitNew(c) ==
    IF ~tc
    THEN Result("shouldEmitNew", c, "true", <<>>, <<>>, 0, <<>>, <<>>)
    ELSE LET ci == getCallInformation(c)
         IN  IF ci.symbol = NoSymbol
             THEN Result("shouldEmitNew", c, "true", <<>>, ci.errs, ci.resolves,
                         <<>>, <<>>)
             ELSE LET fn == getFileAndName(ci.symbol)
                      loc == fn.loc
                      errs == ci.errs \o fn.errs
                  IN  IF ~loc.found
                      THEN Result("shouldEmitNew", c, "true", <<>>, errs,
                                  ci.resolves, <<>>, <<>>)
                      ELSE Result("shouldEmitNew", c,
                                  IF replacesNew(loc) THEN "false" ELSE "true",
                                  <<>>, errs, ci.resolves, <<>>, <<>>)

\* a mutant of isGenericMethodTypeParameterName: the depth is not looked at
isGenericMethodTypeParameterName_anyDepth(name) ==
    IF ~tc
    THEN [is |-> FALSE, typeQueries |-> 0, resolves |-> 0]
    ELSE IF name.typeParam \in {"no", "otherSymbol"}
         THEN [is |-> FALSE, typeQueries |-> 1, resolves |-> 0]
         ELSE [is |-> name.typeParam = "function", typeQueries |-> 1,
               resolves |-> 1]

\* isGenericMethodTypeParameterName(name).  name.typeParam is the checker's
\* answer about the type at the name: "no" (no type parameter), "otherSymbol"
\* (a type parameter whose symbol is not the name's symbol), "method" (the
\* name's own type parameter, declared by something other than a function
\* declaration) or "function" (declared by a function declaration).
isGenericMethodTypeParameterName(name) ==
    IF genericMethodDeclDepth = 0 \/ ~tc
    THEN [is |-> FALSE, typeQueries |-> 0, resolves |-> 0]
    ELSE IF name.typeParam = "no"
         THEN [is |-> FALSE, typeQueries |-> 1, resolves |-> 0]
         ELSE IF name.typeParam = "otherSymbol"
              THEN [is |-> FALSE, typeQueries |-> 1, resolves |-> 1]
              ELSE [is |-> name.typeParam = "function", typeQueries |-> 1,
                    resolves |-> 1]

visitTypeName(typeName) ==
    IF typeName.kind # "Identifier"
    THEN Result("visitTypeName", typeName, "undefined", <<"visit(typeName)">>,
                <<>>, 0, <<>>, [generic |-> FALSE, typeQueries |-> 0])
    ELSE LET ident == typeName.ident
             g == isGenericMethodTypeParameterName(typeName)
             aux == [generic |-> g.is, typeQueries |-> g.typeQueries]
         IN  IF g.is
             THEN Result("visitTypeName", typeName, "undefined",
                         <<"dynamic/*=", ident, "*/">>, <<>>, g.resolves, <<>>, aux)
             ELSE IF isCandidateType(ident) /\ tc
                  THEN IF typeName.symbol = NoSymbol
                       THEN Result("visitTypeName", typeName, "undefined", <<>>,
                                   reportMissingType(<<>>, ident), g.resolves + 1,
                                   <<>>, aux)
                       ELSE LET fn == getFileAndName(typeName.symbol)
                                loc == fn.loc
                            IN  IF loc.found
                                   /\ loc.fileName \in DOMAIN tables.TS_TO_DART_TYPENAMES
                                   /\ loc.qname \in DOMAIN tables.TS_TO_DART_TYPENAMES[loc.fileName]
                                THEN Result("visitTypeName", typeName, "undefined",
                                            <<tables.TS_TO_DART_TYPENAMES[loc.fileName][loc.qname]>>,
                                            fn.errs, g.resolves + 1,
                                            << <<loc.fileName, loc.qname>> >>, aux)
                                ELSE Result("visitTypeName", typeName, "undefined",
                                            <<ident>>, fn.errs, g.resolves + 1, <<>>, aux)
                  ELSE Result("visitTypeName", typeName, "undefined", <<ident>>,
                              <<>>, g.resolves, <<>>, aux)

\* isNamedType(node, fileName, qname); n.typeSymbol is the symbol of the type
\* the checker gives the node (NoSymbol if the type has none)
isNamedType(n, fileName, qname) ==
    IF n.typeSymbol = NoSymbol
    THEN [ret |-> "false", errs |-> <<>>]
    ELSE LET fn == getFileAndName(n.typeSymbol)
             actual == fn.loc
         IN  IF ~actual.found
             THEN \* actual is null: reading actual.fileName throws
                  [ret |-> "TypeError", errs |-> fn.errs]
             ELSE IF fileName = M_lib
                     /\ ~(actual.fileName = M_lib \/ actual.fileName = M_lib_es6)
                  THEN [ret |-> "false", errs |-> fn.errs]
                  ELSE IF fileName # actual.fileName
                       THEN [ret |-> "false", errs |-> fn.errs]
                       ELSE [ret |-> IF qname = actual.qname THEN "true" ELSE "false",
                             errs |-> fn.errs]

\* c.arguments.forEach(...) of the rule Array.concat, from argument i on; an
\* exception ends the loop with what was emitted so far
RECURSIVE concatArguments(_, _, _)
concatArguments(arguments, i, acc) ==
    IF i > Len(arguments)
    THEN acc
    ELSE LET r == isNamedType(arguments[i], M_lib, <<"Array">>)
         IN  IF r.ret = "TypeError"
             THEN [ret |-> "TypeError", out |-> acc.out, errs |-> acc.errs \o r.errs]
             ELSE concatArguments(arguments, i + 1,
                    [ret |-> "undefined",
                     out |-> acc.out \o <<".. addAll (", "visit(arg)", ")">>,
                     errs |-> IF r.ret = "true"
                              THEN acc.errs \o r.errs
                              ELSE reportError(acc.errs \o r.errs,
                                     "Array.concat only takes Array arguments",
                                     "arg")])

\* stdlibHandlers['Array.concat'](c, context), arguments being c.arguments
arrayConcat(arguments) ==
    LET r == concatArguments(arguments, 1,
               [ret |-> "undefined",
                out |-> <<"( new List . from (", "visit(context)", ")">>,
                errs |-> <<>>])
    IN  IF r.ret = "TypeError"
        THEN r
        ELSE [ret |-> "undefined", out |-> Append(r.out, ")"), errs |-> r.errs]

\* the properties every object literal {} inherits: a lookup res[key] finds
\* them when res has no key of its own
ObjectPrototype == {"constructor", "toString", "valueOf", "hasOwnProperty"}

\* res[key] = value on a JavaScript object used as a map
Put(res, key, value) ==
    [k \in DOMAIN res \cup {key} |-> IF k = key THEN value ELSE res[k]]

\* the values undefined and a function inherited from Object.prototype; an
\* absent node is a node of kind "undefined"
undefined == [kind |-> "undefined"]

inherited == [kind |-> "function"]

\* the expression res[key]: the own property, else the inherited one, else
\* undefined
Get(res, key) ==
    IF key \in DOMAIN res THEN res[key]
    ELSE IF key \in ObjectPrototype THEN inherited ELSE undefined

\* the first loop of resolvePropertyTypes: the property signatures of a type
\* literal, by name
RECURSIVE literalProperties(_, _)
literalProperties(members, res) ==
    IF members = <<>> THEN res
    ELSE literalProperties(Tail(members),
                           IF members[1].kind = "PropertySignature"
                           THEN Put(res, members[1].name, members[1])
                           ELSE res)

mustBeProperty == "used for named parameter definition must be a property"

\* a mutant of isPlainProperty: every declaration is taken
isPlainProperty_any(decl) == TRUE

\* decl.kind is PropertyDeclaration or PropertySignature
isPlainProperty(decl) == decl.kind \in {"PropertyDeclaration", "PropertySignature"}

\* the second loop of resolvePropertyTypes, over getPropertiesOfType(t): a
\* property symbol is modelled by its declaration
RECURSIVE checkedProperties(_, _)
checkedProperties(syms, acc) ==
    IF syms = <<>> THEN acc
    ELSE LET decl == syms[1]
         IN  checkedProperties(Tail(syms),
               IF ~isPlainProperty(decl)
               THEN [res |-> acc.res,
                     errs |-> reportError(acc.errs, mustBeProperty, decl.name)]
               ELSE [res |-> Put(acc.res, decl.name, decl), errs |-> acc.errs])

\* resolvePropertyTypes(tn); tn is undefined or a type node with the members
\* it declares (a type literal) or refers to (a type reference), which are the
\* properties the checker gives for its type
resolvePropertyTypes(tn) ==
    LET res == IF tn.kind = "TypeLiteral"
               THEN literalProperties(tn.members, <<>>)
               ELSE <<>>
    IN  IF tn.kind = "undefined" \/ ~tc
        THEN [res |-> res, errs |-> <<>>]
        ELSE checkedProperties(tn.members, [res |-> res, errs |-> <<>>])

\* isConstCall(node) for a call or for no node: whether the callee is CONST_EXPR
isConstCallOf(callee) ==
    IF callee = "none" THEN "undefined"
    ELSE IF callee = "CONST_EXPR" THEN "true" ELSE "false"

\* isInsideConstExpr(node); node.ancestor is the callee of the nearest call
\* around the node, "none" without one
isInsideConstExpr(node) ==
    Result("isInsideConstExpr", node, isConstCallOf(node.ancestor), <<>>, <<>>, 0,
           <<>>, <<>>)

\* ---------------------------------------------------- declaration emitter
\* the text of the i-th name of a list
NameOf(i) ==
    CASE i = 1 -> "n1" [] i = 2 -> "n2" [] i = 3 -> "n3" [] i = 4 -> "n4"
      [] OTHER -> "n5"

\* visitList(nodes): each node's text (text[i]), separated by commas
RECURSIVE visitList(_, _)
visitList(text, idx) ==
    IF idx = <<>> THEN <<>>
    ELSE text[idx[1]] \o (IF Len(idx) > 1 THEN <<",">> ELSE <<>>)
         \o visitList(text, Tail(idx))

\* visitNode, case Parameter, of a parameter without property modifiers: a
\* destructuring pattern goes to visitNamedParameter
visitParameter(p, i) ==
    IF p.binding
    THEN <<"{", NameOf(i), "}">>
    ELSE <<NameOf(i)>> \o (IF p.initializer THEN <<"=", "init">> ELSE <<>>)

\* a mutant of firstInitParamIdx: a destructuring pattern with a default ends
\* the loop like any other parameter
RECURSIVE firstInitParamIdx_anyDefault(_)
firstInitParamIdx_anyDefault(parameters) ==
    IF parameters = <<>> THEN 0
    ELSE IF parameters[1].initializer \/ parameters[1].questionToken THEN 0
         ELSE 1 + firstInitParamIdx_anyDefault(Tail(parameters))

\* the loop of visitParameters: the index (from 0) it stops at
RECURSIVE firstInitParamIdx(_)
firstInitParamIdx(parameters) ==
    IF parameters = <<>> THEN 0
    ELSE LET p == parameters[1]
             isOpt == p.initializer \/ p.questionToken
         IN  IF isOpt /\ ~p.binding THEN 0
             ELSE 1 + firstInitParamIdx(Tail(parameters))

Range(a, b) == [i \in 1..(b + 1 - a) |-> a + i - 1]

visitParameters(parameters) ==
    LET n == Len(parameters)
        first == firstInitParamIdx(parameters)
        text == [i \in 1..n |-> visitParameter(parameters[i], i)]
        requiredParams == Range(1, first)
        positionalOptional == Range(first + 1, n)
    IN  Result("visitParameters", parameters, "undefined",
               <<"(">>
               \o (IF first # 0 THEN visitList(text, requiredParams) ELSE <<>>)
               \o (IF first # n
                   THEN (IF first # 0 THEN <<",">> ELSE <<>>)
                        \o <<"[">> \o visitList(text, positionalOptional) \o <<"]">>
                   ELSE <<>>)
               \o <<")">>,
               <<>>, 0, <<>>,
               [requiredParams |-> requiredParams,
                positionalOptional |-> IF first # n THEN positionalOptional ELSE <<>>])

\* isConstCall(varDecl.initializer): the initializer is a call of CONST_EXPR
isConstCall(initializer) == initializer = "CONST_EXPR"

cannotBeTyped == "Variables in a declaration list of more than one variable cannot by typed"

\* a mutant of moreThanOne: off by one
moreThanOne_offByOne(l) == Len(l.declarations) > 2

\* varDecl.parent.declarations.length > 1
moreThanOne(l) == Len(l.declarations) > 1

\* visitVariableDeclarationType(varDecl), varDecl being declarator i of list l
visitVariableDeclarationType(l, i) ==
    LET varDecl == l.declarations[i]
        isFinal == l.const
        isConst == isFinal /\ varDecl.initializer # "none"
                   /\ isConstCall(varDecl.initializer)
    IN  IF i = 1
        THEN LET kw == IF isConst THEN <<"const">>
                       ELSE IF isFinal THEN <<"final">> ELSE <<>>
             IN  IF ~varDecl.type
                 THEN [out |-> kw \o (IF ~isFinal THEN <<"var">> ELSE <<>>), errs |-> <<>>]
                 ELSE IF moreThanOne(l)
                      THEN [out |-> kw, errs |-> reportError(<<>>, cannotBeTyped, NameOf(i))]
                      ELSE [out |-> kw \o <<"visit(type)">>, errs |-> <<>>]
        ELSE IF varDecl.type
             THEN [out |-> <<>>, errs |-> reportError(<<>>, cannotBeTyped, NameOf(i))]
             ELSE [out |-> <<>>, errs |-> <<>>]

\* visitNode, case VariableDeclaration
visitVariableDeclaration(l, i) ==
    LET t == visitVariableDeclarationType(l, i)
    IN  [out |-> t.out \o <<NameOf(i)>>
                 \o (IF l.declarations[i].initializer # "none"
                     THEN <<"=", "visit(initializer)">> ELSE <<>>),
         errs |-> t.errs]

RECURSIVE Flatten(_)
Flatten(ss) == IF ss = <<>> THEN <<>> ELSE ss[1] \o Flatten(Tail(ss))

\* visitNode, case VariableDeclarationList
visitVariableDeclarationList(l) ==
    LET n == Len(l.declarations)
        d == [i \in 1..n |-> visitVariableDeclaration(l, i)]
    IN  Result("visitVariableDeclarationList", l, "undefined",
               visitList([i \in 1..n |-> d[i].out], Range(1, n)),
               Flatten([i \in 1..n |-> d[i].errs]), 0, <<>>, <<>>)

\* getInitializers(paramDecl): the outer defaults by name
RECURSIVE objectLiteralInitializers(_, _)
objectLiteralInitializers(properties, acc) ==
    IF properties = <<>> THEN acc
    ELSE LET i == properties[1]
         IN  objectLiteralInitializers(Tail(properties),
               IF i.kind # "PropertyAssignment"
               THEN [res |-> acc.res,
                     errs |-> reportError(acc.errs,
                                "named parameter initializers must be properties", i.name)]
               ELSE [res |-> Put(acc.res, i.name, [kind |-> "outer"]),
                     errs |-> acc.errs])

getInitializers(paramDecl) ==
    IF paramDecl.initializer.kind = "undefined"
    THEN [res |-> <<>>, errs |-> <<>>]
    ELSE IF paramDecl.initializer.kind # "ObjectLiteralExpression"
         THEN [res |-> <<>>,
               errs |-> reportError(<<>>,
                          "initializers for named parameters must be object literals",
                          "param")]
         ELSE objectLiteralInitializers(paramDecl.initializer.properties,
                                        [res |-> <<>>, errs |-> <<>>])

bothInitializers == "cannot have both an inner and outer initializer"

\* elem.initializer && initMap[base.ident(elem.name)]
hasBoth(inner, outer) == inner /\ outer.kind # "undefined"

\* one pass of the loop of visitNamedParameter, for element i of the pattern
visitBindingElement(elements, i, propertyTypes, initMap) ==
    LET elem == elements[i]
        propDecl == Get(propertyTypes, elem.name)
        outer == Get(initMap, elem.name)
        init == IF elem.initializer THEN [kind |-> "inner"] ELSE outer
    IN  [out |-> (IF propDecl.kind = "undefined" THEN <<>>
                  ELSE IF propDecl.kind = "function" THEN <<"visit(undefined)">>
                  ELSE <<propDecl.type>>)
                 \o <<elem.name>>
                 \o (IF init.kind # "undefined" THEN <<":", init.kind>> ELSE <<>>)
                 \o (IF i < Len(elements) THEN <<",">> ELSE <<>>),
         errs |-> IF hasBoth(elem.initializer, outer)
                  THEN reportError(<<>>, bothInitializers, elem.name)
                  ELSE <<>>]

visitNamedParameter(paramDecl) ==
    LET pt == resolvePropertyTypes(paramDecl.type)
        im == getInitializers(paramDecl)
        bp == paramDecl.name
        n == Len(bp.elements)
        e == [i \in 1..n |-> visitBindingElement(bp.elements, i, pt.res, im.res)]
    IN  Result("visitNamedParameter", paramDecl, "undefined",
               <<"{">> \o Flatten([i \in 1..n |-> e[i].out]) \o <<"}">>,
               pt.errs \o im.errs \o Flatten([i \in 1..n |-> e[i].errs]),
               0, <<>>, [propertyTypes |-> pt.res, initMap |-> im.res])

\* visitDeclarationMetadata(decl): the modifiers it emits and the errors it
\* reports; decl.name is "none" for a declaration without a name and "" for a
\* name that is no identifier
visitDeclarationMetadata(decl) ==
    LET out == IF "Static" \in decl.modifiers THEN <<"static">> ELSE <<>>
        isPrivate == "Private" \in decl.modifiers
        matchesPrivate == decl.name = "_foo"
    IN  IF "Protected" \in decl.modifiers
        THEN [out |-> out,
              errs |-> reportError(<<>>, "protected declarations are unsupported",
                                   decl.name)]
        ELSE IF ~enforceUnderscoreConventions \/ decl.name \in {"none", ""}
             THEN [out |-> out, errs |-> <<>>]
             ELSE [out |-> out,
                   errs |-> (IF isPrivate /\ ~matchesPrivate
                             THEN reportError(<<>>,
                                    "private members must be prefixed with \"_\"",
                                    decl.name)
                             ELSE <<>>)
                            \o (IF ~isPrivate /\ matchesPrivate
                                THEN reportError(<<>>,
                                       "public members must not be prefixed with \"_\"",
                                       decl.name)
                                ELSE <<>>)]

\* a mutant of mutability: the const constructor comes first
mutability_finalFirst(isConstField, hasConstCtor) ==
    IF hasConstCtor THEN <<"final">>
    ELSE IF isConstField THEN <<"const">> ELSE <<>>

\* the keyword visitProperty begins with
mutability(isConstField, hasConstCtor) ==
    IF isConstField THEN <<"const">>
    ELSE IF hasConstCtor THEN <<"final">> ELSE <<>>

\* visitProperty(decl, isParameter); decl.const is the CONST annotation of the
\* property, decl.constCtor whether its class is const
visitProperty(decl, isParameter) ==
    LET meta == IF ~isParameter THEN visitDeclarationMetadata(decl)
                ELSE [out |-> <<>>, errs |-> <<>>]
        isConstField == decl.const
        hasConstCtor == decl.constCtor
    IN  Result("visitProperty", [decl |-> decl, isParameter |-> isParameter],
               "undefined",
               meta.out
               \o mutability(isConstField, hasConstCtor)
               \o (IF decl.type THEN <<"visit(type)">>
                   ELSE IF ~isConstField /\ ~hasConstCtor THEN <<"var">> ELSE <<>>)
               \o <<decl.name>>
               \o (IF decl.initializer /\ ~isParameter
                   THEN <<"=", "visit(initializer)">> ELSE <<>>)
               \o <<";">>,
               meta.errs, 0, <<>>, <<>>)

Visibilities == {"Private", "Protected", "Public"}

\* whether visitNode calls visitDeclarationMetadata for a declaration: for a
\* constructor, a method, an accessor and a property parameter
callsDeclarationMetadata(node) ==
    \/ node.kind \in {"Constructor", "MethodDeclaration", "GetAccessor", "SetAccessor"}
    \/ node.kind = "Parameter" /\ node.modifiers \cap Visibilities # {}

\* visitNode on a declaration, up to the name it emits: its modifiers, the errors
\* about them and its name.  Type parameters, parameters, types and bodies are
\* visited by the operations of their own.
visitDeclaration(node) ==
    LET meta == IF callsDeclarationMetadata(node)
                THEN visitDeclarationMetadata(node)
                ELSE [out |-> IF node.kind = "MethodSignature"
                                 /\ "Static" \in node.modifiers
                              THEN <<"static">> ELSE <<>>,
                      errs |-> <<>>]
        keyword == CASE node.kind = "ClassDeclaration" -> <<"class">>
                     [] node.kind = "InterfaceDeclaration" -> <<"abstract class">>
                     [] node.kind = "GetAccessor" -> <<"get">>
                     [] node.kind = "SetAccessor" -> <<"set">>
                     [] node.kind = "Parameter" /\ node.modifiers \cap Visibilities # {}
                          -> <<"this .">>
                     [] OTHER -> <<>>
    IN  Result("visitNode", node, "true",
               meta.out \o keyword
               \o (IF node.name = "none" THEN <<"className">> ELSE <<node.name>>),
               meta.errs, 0, <<>>, <<>>)

\* whether visitNode hands a function-like to visitFunctionLike: not an arrow
\* function whose body is an expression, not the call signature of an
\* interface with nothing else, not the function type of a type alias
callsVisitFunctionLike(node) ==
    /\ node.kind \notin {"CallSignature", "FunctionType"}
    /\ node.kind = "ArrowFunction" => node.body = "Block"

\* a mutant of popTypeParameterNames: the test of n.typeParameters is missing
popTypeParameterNames_unconditional(depth, n) == depth - 1

\* pushTypeParameterNames(n) and popTypeParameterNames(n): the new depth
pushTypeParameterNames(depth, n) ==
    IF ~n.typeParameters THEN depth ELSE depth + 1

popTypeParameterNames(depth, n) ==
    IF ~n.typeParameters THEN depth ELSE depth - 1

\* ------------------------------------------------------------- the inputs
\* identifiers of nodes the checker has no symbol for
Idents == {"push", "Promise", "foo"}

\* the text of a name and the symbol the checker gives it: a name the checker
\* resolves reads as its symbol's name
NamedAs(symbol, ident) ==
    IF symbol = NoSymbol THEN ident \in Idents ELSE ident = symtab[symbol].name

Names ==
    { n \in [ident : Idents \cup { symtab[s].name : s \in Symbols },
             symbol : Symbols \cup {NoSymbol}] : NamedAs(n.symbol, n.ident) }

CallNodes ==
    { [kind |-> k, exprKind |-> e, ident |-> n.ident, symbol |-> n.symbol,
       insideConst |-> ic, nargs |-> a] :
        k \in {"CallExpression", "NewExpression"},
        e \in {"Identifier", "PropertyAccessExpression"},
        n \in Names, ic \in BOOLEAN, a \in 0..1 }
    \cup
    \* a callee that is neither an identifier nor a property access
    { [kind |-> k, exprKind |-> "Other", ident |-> "foo", symbol |-> NoSymbol,
       insideConst |-> ic, nargs |-> a] :
        k \in {"CallExpression", "NewExpression"}, ic \in BOOLEAN, a \in 0..1 }

PropertyAccesses == Names

TypeNames ==
    { [kind |-> "Identifier", ident |-> n.ident, symbol |-> n.symbol, typeParam |-> t] :
        n \in Names, t \in {"no", "otherSymbol", "method", "function"} }
    \cup { [kind |-> "QualifiedName", ident |-> "foo", symbol |-> NoSymbol,
            typeParam |-> "no"] }

\* the names the checker can give these answers for: a name is its own type
\* parameter only if its symbol is a type parameter
WellTyped(t) ==
    t.typeParam \in {"method", "function"}
        <=> (t.symbol # NoSymbol /\ "TypeParameter" \in symtab[t.symbol].flags)

Parameter == [initializer : BOOLEAN, questionToken : BOOLEAN, binding : BOOLEAN]

SeqsUpTo(S, n) == UNION { [1..k -> S] : k \in 0..n }

ParameterLists == SeqsUpTo(Parameter, MaxParams)

VariableDeclaration == [type : BOOLEAN, initializer : {"none", "expr", "CONST_EXPR"}]

VariableDeclarationLists ==
    [const : BOOLEAN,
     declarations : SeqsUpTo(VariableDeclaration, MaxDecls) \ { <<>> }]

\* the arguments of a call of concat, each with the symbol of its type
ConcatArguments ==
    SeqsUpTo({ [typeSymbol |-> s] :
                 s \in {NoSymbol, "Array", "Array@orphan", "Promise"} }, MaxArgs)

\* the function-likes: a declaration, an expression or a signature, with or
\* without type parameters; only an arrow function has an expression for a body
FunctionLikes ==
    { n \in [kind : {"FunctionDeclaration", "MethodDeclaration", "GetAccessor",
                     "SetAccessor", "MethodSignature", "FunctionExpression",
                     "ArrowFunction", "CallSignature", "FunctionType"},
             body : {"Block", "Expression", "none"},
             typeParameters : BOOLEAN] :
        /\ n.body = "Expression" => n.kind = "ArrowFunction"
        /\ n.body = "none" <=> n.kind \in {"MethodSignature", "CallSignature",
                                           "FunctionType"} }

\* the names of fields, in the order the inputs list them
Rank(name) == CASE name = "x" -> 1 [] name = "y" -> 2 [] OTHER -> 3

\* s names distinct fields
Distinct(s) == \A i, j \in 1..Len(s) : i < j => Rank(s[i].name) < Rank(s[j].name)

\* the members of a type: distinct names, each with its declared type
Members(kinds) ==
    { s \in SeqsUpTo([name : {"x", "y"}, kind : kinds, type : {"number", "string"}], 2) :
        /\ \A i \in 1..Len(s) : s[i].type = (IF s[i].name = "x" THEN "number" ELSE "string")
        /\ Distinct(s) }

TypeNodes ==
    { [kind |-> "undefined", members |-> <<>>] }
    \cup { [kind |-> "TypeLiteral", members |-> ms] :
             ms \in Members({"PropertySignature", "MethodSignature"}) }
    \cup { [kind |-> "TypeReference", members |-> ms] :
             ms \in Members({"PropertyDeclaration", "MethodDeclaration"}) }

\* a binding pattern: distinct names, each with or without an inline default
BindingPatterns ==
    { s \in SeqsUpTo([name : {"x", "y", "toString"}, initializer : BOOLEAN], 2) :
        s # <<>> /\ Distinct(s) }

\* the default of a parameter: none, an object literal or another expression
ParameterInitializers ==
    { [kind |-> k, properties |-> <<>>] : k \in {"undefined", "CallExpression"} }
    \cup { [kind |-> "ObjectLiteralExpression", properties |-> ps] :
             ps \in { s \in SeqsUpTo([name : {"x", "y"},
                                      kind : {"PropertyAssignment",
                                              "ShorthandPropertyAssignment"}], 2) :
                        Distinct(s) } }

NamedParameters ==
    { [name |-> [elements |-> es], type |-> tn, initializer |-> init] :
        es \in BindingPatterns, tn \in TypeNodes, init \in ParameterInitializers }

\* the modifiers of a declaration: at most one of the visibilities
Modifiers ==
    { v \cup s : v \in { {}, {"Private"}, {"Protected"}, {"Public"} },
                 s \in { {}, {"Static"} } }

\* a property declaration or signature, or a property parameter
Properties ==
    [const : BOOLEAN, constCtor : BOOLEAN, type : BOOLEAN, initializer : BOOLEAN,
     modifiers : Modifiers, name : {"foo", "_foo", ""}]

\* the declarations with a name that visitNode has a case for, and the
\* constructor; classes, interfaces, functions and the members of interfaces
\* have no visibility
Declarations ==
    { d \in [kind : {"ClassDeclaration", "InterfaceDeclaration", "FunctionDeclaration",
                     "MethodDeclaration", "GetAccessor", "SetAccessor",
                     "MethodSignature", "Constructor", "Parameter"},
             modifiers : Modifiers, name : {"foo", "_foo", "", "none"}] :
        /\ d.name = "none" <=> d.kind = "Constructor"
        /\ d.name = "" => d.kind \in {"MethodDeclaration", "GetAccessor", "SetAccessor",
                                      "MethodSignature"}
        /\ d.kind \in {"ClassDeclaration", "InterfaceDeclaration", "FunctionDeclaration",
                       "MethodSignature"} => d.modifiers = {}
        /\ d.kind \in {"Constructor", "Parameter"} => "Static" \notin d.modifiers }

\* alias symbols that stand for each other, and an alias of one of them
CyclicSymbols == {"A", "B", "C"}

symbolsWithCycle ==
    [s \in Symbols \cup CyclicSymbols |->
       CASE s = "A" -> Sym("A", <<"A">>, {"Alias"}, "B", <<>>, <<F_app>>)
         [] s = "B" -> Sym("B", <<"B">>, {"Alias"}, "A", <<>>, <<F_app>>)
         [] s = "C" -> Sym("C", <<"C">>, {"Alias"}, "A", <<>>, <<F_app>>)
         [] OTHER -> checkerSymbols[s]]

\* no getFileAndName is between its call and its return
NotLocating ==
    [active |-> FALSE, originalSymbol |-> NoSymbol, symbol |-> NoSymbol, steps |-> 0]

\* ------------------------------------------------------- the state machine
Init ==
    /\ symtab = checkerSymbols
    /\ locating = NotLocating
    /\ tables = registry
    /\ tc = FALSE
    /\ candidateProperties = constructor.candidateProperties
    /\ candidateTypes = constructor.candidateTypes
    /\ enforceUnderscoreConventions \in BOOLEAN
    /\ genericMethodDeclDepth = 0
    /\ stack = <<>>
    /\ mode = "run"
    /\ last = Idle

\* an operation is called between two steps of the traversal, while no
\* exception propagates; the driver then takes its result
CanCall == mode = "run" /\ last = Idle

\* setTypeChecker(tc), before the translation of a program starts
SetTypeChecker ==
    /\ CanCall
    /\ stack = <<>>
    /\ ~tc
    /\ tc' = TRUE
    /\ UNCHANGED <<symtab, tables, locating, candidateProperties, candidateTypes, enforceUnderscoreConventions, genericMethodDeclDepth, stack, mode, last>>

\* a mutant of MaybeHandleCall: the callee's name is remembered as a candidate
MaybeHandleCall_caching ==
    /\ CanCall
    /\ \E c \in CallNodes :
         /\ last' = maybeHandleCall(c)
         /\ candidateProperties' = candidateProperties \cup {c.ident}
    /\ UNCHANGED <<symtab, tables, tc, locating, candidateTypes, enforceUnderscoreConventions, genericMethodDeclDepth, stack, mode>>

MaybeHandleCall ==
    /\ CanCall
    /\ \E c \in CallNodes : last' = maybeHandleCall(c)
    /\ UNCHANGED <<symtab, tables, tc, locating, candidateProperties, candidateTypes, enforceUnderscoreConventions, genericMethodDeclDepth, stack, mode>>

HandlePropertyAccess ==
    /\ CanCall
    /\ \E pa \in PropertyAccesses : last' = handlePropertyAccess(pa)
    /\ UNCHANGED <<symtab, tables, tc, locating, candidateProperties, candidateTypes, enforceUnderscoreConventions, genericMethodDeclDepth, stack, mode>>

ShouldEmitNew ==
    /\ CanCall
    /\ \E c \in CallNodes : last' = shouldEmitNew(c)
    /\ UNCHANGED <<symtab, tables, tc, locating, candidateProperties, candidateTypes, enforceUnderscoreConventions, genericMethodDeclDepth, stack, mode>>

VisitTypeName ==
    /\ CanCall
    /\ \E t \in TypeNames : WellTyped(t) /\ last' = visitTypeName(t)
    /\ UNCHANGED <<symtab, tables, tc, locating, candidateProperties, candidateTypes, enforceUnderscoreConventions, genericMethodDeclDepth, stack, mode>>

\* the call of the rule Array.concat by maybeHandleCall; an exception of the
\* rule leaves maybeHandleCall and the visit of the call
ArrayConcat ==
    /\ CanCall
    /\ tc
    /\ \E arguments \in ConcatArguments :
         LET r == arrayConcat(arguments)
         IN  /\ last' = Result("Array.concat", arguments, r.ret, r.out, r.errs, 0,
                               << <<M_lib, <<"Array", "concat">> >> >>, <<>>)
             /\ mode' = IF r.ret = "TypeError" /\ stack # <<>>
                        THEN "throwing" ELSE mode
    /\ UNCHANGED <<symtab, tables, tc, locating, candidateProperties, candidateTypes, enforceUnderscoreConventions, genericMethodDeclDepth, stack>>

\* getFileAndName on a symbol, as its callers use it
GetFileAndName ==
    /\ CanCall
    /\ tc
    /\ \E s \in Symbols :
         LET fn == getFileAndName(s)
         IN  last' = Result("getFileAndName", s,
                            IF fn.loc.found THEN "object" ELSE "null",
                            <<>>, fn.errs, 0, <<>>, fn.loc)
    /\ UNCHANGED <<symtab, tables, tc, locating, candidateProperties, candidateTypes, enforceUnderscoreConventions, genericMethodDeclDepth, stack, mode>>

\* isNamedType, as a call handler uses it
IsNamedType ==
    /\ CanCall
    /\ tc
    /\ \E s \in Symbols \cup {NoSymbol},
          fileName \in {M_lib, M_lib_es6, M_es6_promise},
          qname \in { <<"Array">>, <<"Promise">> } :
         LET r == isNamedType([typeSymbol |-> s], fileName, qname)
         IN  last' = Result("isNamedType",
                            [typeSymbol |-> s, fileName |-> fileName, qname |-> qname],
                            r.ret, <<>>, r.errs, 0, <<>>, <<>>)
    /\ UNCHANGED <<symtab, tables, tc, locating, candidateProperties, candidateTypes, enforceUnderscoreConventions, genericMethodDeclDepth, stack, mode>>

VisitParameters ==
    /\ CanCall
    /\ \E ps \in ParameterLists : last' = visitParameters(ps)
    /\ UNCHANGED <<symtab, tables, tc, locating, candidateProperties, candidateTypes, enforceUnderscoreConventions, genericMethodDeclDepth, stack, mode>>

VisitVariableDeclarationList ==
    /\ CanCall
    /\ \E l \in VariableDeclarationLists : last' = visitVariableDeclarationList(l)
    /\ UNCHANGED <<symtab, tables, tc, locating, candidateProperties, candidateTypes, enforceUnderscoreConventions, genericMethodDeclDepth, stack, mode>>

ResolvePropertyTypes ==
    /\ CanCall
    /\ \E tn \in TypeNodes :
         LET r == resolvePropertyTypes(tn)
         IN  last' = Result("resolvePropertyTypes", tn, "object", <<>>, r.errs, 0,
                            <<>>, r.res)
    /\ UNCHANGED <<symtab, tables, tc, locating, candidateProperties, candidateTypes, enforceUnderscoreConventions, genericMethodDeclDepth, stack, mode>>

VisitNamedParameter ==
    /\ CanCall
    /\ \E p \in NamedParameters : last' = visitNamedParameter(p)
    /\ UNCHANGED <<symtab, tables, tc, locating, candidateProperties, candidateTypes, enforceUnderscoreConventions, genericMethodDeclDepth, stack, mode>>

VisitProperty ==
    /\ CanCall
    /\ \E decl \in Properties, isParameter \in BOOLEAN :
         /\ isParameter => decl.modifiers \cap {"Private", "Protected", "Public"} # {}
         /\ last' = visitProperty(decl, isParameter)
    /\ UNCHANGED <<symtab, tables, tc, locating, candidateProperties, candidateTypes, enforceUnderscoreConventions, genericMethodDeclDepth, stack, mode>>

VisitDeclaration ==
    /\ CanCall
    /\ \E node \in Declarations : last' = visitDeclaration(node)
    /\ UNCHANGED <<symtab, tables, tc, locating, candidateProperties, candidateTypes, enforceUnderscoreConventions, genericMethodDeclDepth, stack, mode>>

IsInsideConstExpr ==
    /\ CanCall
    /\ \E a \in {"none", "expr", "CONST_EXPR"} :
         last' = isInsideConstExpr([ancestor |-> a])
    /\ UNCHANGED <<symtab, tables, tc, locating, candidateProperties, candidateTypes, enforceUnderscoreConventions, genericMethodDeclDepth, stack, mode>>

\* getFileAndName step by step.  The call: symbol = originalSymbol
GetFileAndNameCall ==
    /\ CanCall
    /\ tc
    /\ ~locating.active
    /\ \E s \in DOMAIN symtab :
         locating' = [active |-> TRUE, originalSymbol |-> s, symbol |-> s, steps |-> 0]
    /\ UNCHANGED <<symtab, tables, tc, candidateProperties, candidateTypes, enforceUnderscoreConventions, genericMethodDeclDepth, stack, mode, last>>

\* one pass of the while loop; the steps are counted up to MaxSteps
AliasStep ==
    /\ locating.active
    /\ isAlias(locating.symbol)
    /\ locating' = [locating EXCEPT
                      !.symbol = getAliasedSymbol(locating.symbol),
                      !.steps = IF @ < MaxSteps THEN @ + 1 ELSE @]
    /\ UNCHANGED <<symtab, tables, tc, candidateProperties, candidateTypes, enforceUnderscoreConventions, genericMethodDeclDepth, stack, mode, last>>

\* the loop is over: the rest of getFileAndName and its return
GetFileAndNameReturn ==
    /\ locating.active
    /\ ~isAlias(locating.symbol)
    /\ LET fn == declarationKey(locating.originalSymbol, locating.symbol)
       IN  last' = Result("getFileAndName", locating.originalSymbol,
                          IF fn.loc.found THEN "object" ELSE "null",
                          <<>>, fn.errs, 0, <<>>,
                          [fileName |-> fn.loc.fileName, qname |-> fn.loc.qname,
                           found |-> fn.loc.found, steps |-> locating.steps])
    /\ locating' = NotLocating
    /\ UNCHANGED <<symtab, tables, tc, candidateProperties, candidateTypes, enforceUnderscoreConventions, genericMethodDeclDepth, stack, mode>>

\* the driver takes the result of the operation
Return ==
    /\ last # Idle
    /\ mode = "run"
    /\ last' = Idle
    /\ UNCHANGED <<symtab, tables, tc, locating, candidateProperties, candidateTypes, enforceUnderscoreConventions, genericMethodDeclDepth, stack, mode>>

\* visitNode on a function-like that goes to visitFunctionLike, up to the try
\* block: the push.  A frame keeps whether the declaration has type parameters,
\* how its visit began and the depth before it.
EnterFunctionLike ==
    /\ CanCall
    /\ Len(stack) < MaxNest
    /\ \E node \in FunctionLikes :
         LET fn == [typeParameters |-> node.typeParameters]
             after == pushTypeParameterNames(genericMethodDeclDepth, fn)
         IN  /\ callsVisitFunctionLike(node)
             /\ stack' = Append(stack, [fn |-> fn, via |-> "visitFunctionLike",
                                        before |-> genericMethodDeclDepth])
             /\ genericMethodDeclDepth' = after
             /\ last' = Result("enterFunctionLike", node, "undefined", <<>>, <<>>, 0,
                               <<>>, [before |-> genericMethodDeclDepth, after |-> after])
    /\ UNCHANGED <<symtab, tables, tc, locating, candidateProperties, candidateTypes, enforceUnderscoreConventions, mode>>

\* visitNode on an arrow function with an expression for its body, and
\* visitFunctionTypedefInterface on an interface with one call signature or on
\* an alias of a function type: the parameters, the return type and the body
\* are visited without visitFunctionLike
EnterSignature ==
    /\ CanCall
    /\ Len(stack) < MaxNest
    /\ \E node \in FunctionLikes :
         /\ ~callsVisitFunctionLike(node)
         /\ stack' = Append(stack, [fn |-> [typeParameters |-> node.typeParameters],
                                    via |-> "visitNode",
                                    before |-> genericMethodDeclDepth])
         /\ last' = Result("enterFunctionLike", node, "undefined", <<>>, <<>>, 0,
                           <<>>, [before |-> genericMethodDeclDepth,
                                  after |-> genericMethodDeclDepth])
    /\ UNCHANGED <<symtab, tables, tc, locating, candidateProperties, candidateTypes, enforceUnderscoreConventions, genericMethodDeclDepth, mode>>

\* the end of the visit of a function-like: for visitFunctionLike its finally
\* block, then the return or the rethrow
LeaveFunctionLike(how) ==
    LET top == stack[Len(stack)]
        after == IF top.via = "visitFunctionLike"
                 THEN popTypeParameterNames(genericMethodDeclDepth, top.fn)
                 ELSE genericMethodDeclDepth
    IN  /\ genericMethodDeclDepth' = after
        /\ stack' = SubSeq(stack, 1, Len(stack) - 1)
        /\ last' = Result(top.via, top.fn, how, <<>>, <<>>, 0, <<>>,
                          [before |-> top.before, after |-> after])

\* the try block ends normally
ReturnFunctionLike ==
    /\ CanCall
    /\ stack # <<>>
    /\ LeaveFunctionLike("undefined")
    /\ UNCHANGED <<symtab, tables, tc, locating, candidateProperties, candidateTypes, enforceUnderscoreConventions, mode>>

\* emitting the return type, the parameters or the body throws
Throw ==
    /\ CanCall
    /\ stack # <<>>
    /\ mode' = "throwing"
    /\ UNCHANGED <<symtab, tables, tc, locating, candidateProperties, candidateTypes, enforceUnderscoreConventions, genericMethodDeclDepth, stack, last>>

\* the exception leaves the innermost visit through its finally block; out of
\* the outermost one, the translation of this file is over
Unwind ==
    /\ mode = "throwing"
    /\ stack # <<>>
    /\ LeaveFunctionLike("throws")
    /\ mode' = IF Len(stack) = 1 THEN "run" ELSE "throwing"
    /\ UNCHANGED <<symtab, tables, tc, locating, candidateProperties, candidateTypes, enforceUnderscoreConventions>>

Next ==
    \/ SetTypeChecker
    \/ MaybeHandleCall
    \/ HandlePropertyAccess
    \/ ShouldEmitNew
    \/ VisitTypeName
    \/ GetFileAndName
    \/ IsNamedType
    \/ ArrayConcat
    \/ ResolvePropertyTypes
    \/ IsInsideConstExpr
    \/ Return
    \/ EnterFunctionLike
    \/ EnterSignature
    \/ ReturnFunctionLike
    \/ Throw
    \/ Unwind

\* the substitution engine, called during the traversal of function-likes
Spec == Init /\ [][Next]_vars

NextEmitter ==
    \/ SetTypeChecker
    \/ VisitParameters
    \/ VisitVariableDeclarationList
    \/ VisitNamedParameter
    \/ VisitProperty
    \/ VisitDeclaration
    \/ Return

\* the declaration emitter, one declaration at a time: what it emits does not
\* depend on the function-likes that enclose the declaration
SpecEmitter == Init /\ [][NextEmitter]_vars

\* a checker whose aliases may stand for each other
InitLocate ==
    /\ symtab = symbolsWithCycle
    /\ tables = registry
    /\ locating = NotLocating
    /\ tc = FALSE
    /\ candidateProperties = constructor.candidateProperties
    /\ candidateTypes = constructor.candidateTypes
    /\ enforceUnderscoreConventions \in BOOLEAN
    /\ genericMethodDeclDepth = 0
    /\ stack = <<>>
    /\ mode = "run"
    /\ last = Idle

NextLocate ==
    \/ SetTypeChecker
    \/ GetFileAndNameCall
    \/ AliasStep
    \/ GetFileAndNameReturn
    \/ Return

\* getFileAndName one step at a time; the program is one thread that goes on as
\* long as it has a step to take
SpecLocate == InitLocate /\ [][NextLocate]_vars /\ WF_vars(NextLocate)

\* ---------------------------------------------------------------- claims
CalleeIsName(c) == c.exprKind \in {"Identifier", "PropertyAccessExpression"}

\* the symbol maybeHandleCall and shouldEmitNew get to work with, if any
Understood(c) ==
    tc /\ CalleeIsName(c) /\ c.ident \in candidateProperties /\ c.symbol # NoSymbol

\* C1: maybeHandleCall invokes at most one call rule; it returns true exactly
\* when a rule is registered for the callee's canonical key and that rule did
\* not decline; without a type checker, a symbol, a key or a rule it returns a
\* false value and invokes no rule.
C1_OneRuleAndHandled ==
    last.op = "maybeHandleCall" =>
      LET c == last.in
          loc == IF Understood(c) THEN getFileAndName(c.symbol).loc ELSE NotFound
          found == /\ loc.found
                   /\ loc.fileName \in DOMAIN callHandlers
                   /\ loc.qname \in callHandlers[loc.fileName]
          declined == callHandler(loc.fileName, loc.qname, c).ret = "true"
      IN  /\ Len(last.rules) <= 1
          /\ last.ret = "true" <=> (found /\ ~declined)
          /\ found => last.rules = << <<loc.fileName, loc.qname>> >>
          /\ ~found => /\ last.ret \in {"false", "null", "undefined"}
                       /\ last.rules = <<>>

\* a rule was found and did its own emission; another call's rule declined
C1_Witness ==
    /\ last.op = "maybeHandleCall"
    /\ Len(last.rules) = 1
    /\ last.ret = "true"
    /\ last.in.symbol = "import Promise"

\* C2: a call whose callee's name, or a property access whose name, is not a
\* candidate makes no getSymbolAtLocation call and reports no error.
C2_NoResolutionOffCandidates ==
    /\ (last.op \in {"maybeHandleCall", "shouldEmitNew"}
          /\ CalleeIsName(last.in)
          /\ last.in.ident \notin candidateProperties)
         => (last.resolves = 0 /\ last.errs = <<>>)
    /\ (last.op = "handlePropertyAccess"
          /\ last.in.ident \notin candidateProperties)
         => (last.resolves = 0 /\ last.errs = <<>>)

\* with a type checker, a call of a name that is no candidate and whose symbol
\* the checker would find
C2_Witness ==
    /\ tc
    /\ last.op = "maybeHandleCall"
    /\ last.in.exprKind = "PropertyAccessExpression"
    /\ last.in.ident \notin candidateProperties
    /\ last.in.symbol # NoSymbol
    /\ last.resolves = 0

\* the symbol n alias steps after s
RECURSIVE aliasedTimes(_, _)
aliasedTimes(s, n) ==
    IF n = 0 THEN s ELSE aliasedTimes(getAliasedSymbol(s), n - 1)

\* C3: getFileAndName on an alias with a chain of length >= 1 returns the key,
\* or the null, that getFileAndName returns on the symbol the chain ends in.
C3_AliasResolvesAsTerminal ==
    (last.op = "getFileAndName" /\ isAlias(last.in)) =>
      LET T == aliasedTimes(last.in, aliasChainLength(last.in))
      IN  /\ ~isAlias(T)
          /\ last.aux = getFileAndName(T).loc

\* an alias of an alias, located in the module of the class it stands for
C3_Witness ==
    /\ last.op = "getFileAndName"
    /\ aliasChainLength(last.in) = 2
    /\ last.aux.found
    /\ last.aux.fileName = M_es6_promise

HasTok(out, t) == \E i \in 1..Len(out) : out[i] = t

PosOf(out, t) == CHOOSE i \in 1..Len(out) : out[i] = t

\* the text between the brackets, and the text before them
InBrackets(out) ==
    IF HasTok(out, "[")
    THEN SubSeq(out, PosOf(out, "[") + 1, PosOf(out, "]") - 1)
    ELSE <<>>

BeforeBrackets(out) ==
    IF HasTok(out, "[") THEN SubSeq(out, 1, PosOf(out, "[") - 1) ELSE out

IsName(t) == t \in { NameOf(i) : i \in 1..5 }

\* the names of the parameters emitted in a piece of text, in order
NamesIn(out) == SelectSeq(out, IsName)

NamesOf(idx) == [j \in 1..Len(idx) |-> NameOf(idx[j])]

\* the number of leading elements of ps that are in S
LeadingIn(ps, S) ==
    CHOOSE k \in 0..Len(ps) :
      /\ \A i \in 1..k : ps[i] \in S
      /\ k < Len(ps) => ps[k + 1] \notin S

C5_Claim ==
    last.op = "visitParameters" =>
      LET ps == last.in
          k == Len(last.aux.requiredParams)
          rest == SelectSeq(Range(k + 1, Len(ps)), LAMBDA i : ~ps[i].binding)
      IN  /\ HasTok(last.out, "[") <=> rest # <<>>
          /\ NamesIn(InBrackets(last.out)) = NamesOf(rest)

\* C6: in a list of two or more declarators every declarator with a type gets
\* the error, in a list of one there is no error and a type is emitted.
C6_TypedListError ==
    last.op = "visitVariableDeclarationList" =>
      LET ds == last.in.declarations
          typed == SelectSeq(Range(1, Len(ds)), LAMBDA i : ds[i].type)
      IN  /\ Len(ds) >= 2 =>
               last.errs = [j \in 1..Len(typed) |-> <<cannotBeTyped, NameOf(typed[j])>>]
          /\ Len(ds) = 1 =>
               /\ last.errs = <<>>
               /\ ds[1].type <=> HasTok(last.out, "visit(type)")

\* a list whose first declarator has a type, a list where another one has
C6_Witness ==
    /\ last.op = "visitVariableDeclarationList"
    /\ Len(last.in.declarations) = 2
    /\ last.in.declarations[1].type
    /\ ~last.in.declarations[2].type
    /\ Len(last.errs) = 1

\* the declarations with type parameters whose visitFunctionLike is in progress
GenericFrames ==
    { i \in 1..Len(stack) :
        stack[i].via = "visitFunctionLike" /\ stack[i].fn.typeParameters }

\* C7: when a visitFunctionLike ends, by return or by exception, the depth is
\* what it was when the visit began; the pushes and pops pair up for every
\* nesting, so the depth counts the generic visits in progress.
C7_DepthRestored ==
    /\ last.op = "visitFunctionLike" => last.aux.after = last.aux.before
    /\ genericMethodDeclDepth = Cardinality(GenericFrames)

\* an exception leaves a generic function-like nested in a generic one
C7_Witness ==
    /\ last.op = "visitFunctionLike"
    /\ last.ret = "throws"
    /\ last.in.typeParameters
    /\ last.aux.before = 1
    /\ mode = "throwing"

\* C8: isNamedType takes 'lib' and 'lib.es6' for one module when 'lib' is asked
\* for: it returns true when the modules agree in this sense and the names are
\* equal, false when the modules differ otherwise.
C8_Claim ==
    (/\ last.op = "isNamedType"
     /\ last.in.typeSymbol # NoSymbol
     /\ getFileAndName(last.in.typeSymbol).loc.found) =>
      LET actual == getFileAndName(last.in.typeSymbol).loc
          sameModule ==
            \/ last.in.fileName = actual.fileName
            \/ last.in.fileName = M_lib /\ actual.fileName \in {M_lib, M_lib_es6}
      IN  last.ret = IF sameModule /\ last.in.qname = actual.qname
                     THEN "true" ELSE "false"

\* C9: for an identifier that is no generic type parameter visitTypeName emits
\* one name, the replacement of the rule or else the identifier, also when the
\* symbol of a candidate is missing; the missing type error is reported exactly
\* in that last case.
C9_Claim ==
    (last.op = "visitTypeName" /\ last.in.kind = "Identifier" /\ ~last.aux.generic) =>
      LET t == last.in
          candidate == tc /\ t.ident \in candidateTypes
          loc == IF candidate /\ t.symbol # NoSymbol
                 THEN getFileAndName(t.symbol).loc ELSE NotFound
          hasRule == /\ loc.found
                     /\ loc.fileName \in DOMAIN TS_TO_DART_TYPENAMES
                     /\ loc.qname \in DOMAIN TS_TO_DART_TYPENAMES[loc.fileName]
      IN  /\ last.out = IF hasRule
                        THEN <<TS_TO_DART_TYPENAMES[loc.fileName][loc.qname]>>
                        ELSE <<t.ident>>
          /\ (\E i \in 1..Len(last.errs) : last.errs[i][1] = "Untyped property access")
               <=> (candidate /\ t.symbol = NoSymbol)

\* the keys callHandlerReplaceNew marks
ReplaceNewKeys ==
    UNION { { <<m, q>> : q \in { n \in DOMAIN callHandlerReplaceNew[m] :
                                   callHandlerReplaceNew[m][n] } } :
            m \in DOMAIN callHandlerReplaceNew }

\* C10: shouldEmitNew returns false exactly when the callee resolves to a key
\* that callHandlerReplaceNew marks, and true in every other case.
C10_EmitNewUnlessReplaced ==
    last.op = "shouldEmitNew" =>
      LET c == last.in
          loc == IF Understood(c) THEN getFileAndName(c.symbol).loc ELSE NotFound
          marked == loc.found /\ <<loc.fileName, loc.qname>> \in ReplaceNewKeys
      IN  last.ret = IF marked THEN "false" ELSE "true"

\* new Promise(...) through an import of es6-promise: no new is to be emitted
C10_Witness ==
    /\ last.op = "shouldEmitNew"
    /\ last.in.kind = "NewExpression"
    /\ last.in.symbol = "import Promise"
    /\ last.ret = "false"

\* the keys of the properties an object literal assigns
AssignedKeys(init) ==
    IF init.kind # "ObjectLiteralExpression" THEN {}
    ELSE { init.properties[i].name :
             i \in { j \in 1..Len(init.properties) :
                       init.properties[j].kind = "PropertyAssignment" } }

\* the text of field i of a pattern with the type and the one default it has
\* (the inline one if it has both)
FieldText(p, i, propertyTypes) ==
    LET elem == p.name.elements[i]
    IN  (IF elem.name \in DOMAIN propertyTypes
         THEN <<propertyTypes[elem.name].type>> ELSE <<>>)
        \o <<elem.name>>
        \o (IF elem.initializer THEN <<":", "inner">>
            ELSE IF elem.name \in AssignedKeys(p.initializer) THEN <<":", "outer">>
            ELSE <<>>)
        \o (IF i < Len(p.name.elements) THEN <<",">> ELSE <<>>)

\* C11: for every field of a named parameter the both-initializers error is
\* reported exactly when the field has an inline default and the parameter's
\* object literal default assigns its name; the field is emitted with the type
\* resolvePropertyTypes has for its name, if any, and with the one default it
\* has, if any.
C11_Claim ==
    last.op = "visitNamedParameter" =>
      LET p == last.in
          es == p.name.elements
      IN  /\ \A i \in 1..Len(es) :
               (\E j \in 1..Len(last.errs) :
                    last.errs[j] = <<bothInitializers, es[i].name>>)
                 <=> (es[i].initializer /\ es[i].name \in AssignedKeys(p.initializer))
          /\ last.out = <<"{">>
                        \o Flatten([i \in 1..Len(es) |->
                                      FieldText(p, i, last.aux.propertyTypes)])
                        \o <<"}">>

\* the mutability forms in a text, in order
Mutabilities(out) == SelectSeq(out, LAMBDA t : t \in {"const", "final", "var"})

\* C12: visitProperty emits const for a property with the const marker,
\* whatever the constructor of its class; else final if the class has a const
\* constructor; else var if and only if the property has no type; never two of
\* const, final and var.
C12_OneMutability ==
    last.op = "visitProperty" =>
      LET decl == last.in.decl
      IN  Mutabilities(last.out) =
            IF decl.const THEN <<"const">>
            ELSE IF decl.constCtor THEN <<"final">>
            ELSE IF ~decl.type THEN <<"var">> ELSE <<>>

\* a const property without a type in a class whose constructor is const
C12_Witness ==
    /\ last.op = "visitProperty"
    /\ last.in.decl.const /\ last.in.decl.constCtor /\ ~last.in.decl.type
    /\ ~last.in.isParameter
    /\ Mutabilities(last.out) = <<"const">>

\* a call whose callee's name is a candidate and has no symbol
UnresolvedCandidate(c) ==
    tc /\ CalleeIsName(c) /\ c.ident \in candidateProperties /\ c.symbol = NoSymbol

\* C13, as claimed: for both shapes of callee maybeHandleCall reports the
\* untyped access error itself and returns false.
C13_Original ==
    (last.op = "maybeHandleCall" /\ UnresolvedCandidate(last.in)) =>
      /\ last.ret = "false"
      /\ last.errs = << <<"Untyped property access", last.in.ident>> >>

\* C13, amended: maybeHandleCall returns false, invokes no rule and emits
\* nothing; it reports the untyped access error itself for a callee that is an
\* identifier and reports nothing for a callee that is a property access, where
\* the error is the one handlePropertyAccess reports for a property access
\* whose name is a candidate and has no symbol.
C13_MissingSymbol ==
    /\ (last.op = "maybeHandleCall" /\ UnresolvedCandidate(last.in)) =>
         /\ last.ret = "false"
         /\ last.rules = <<>>
         /\ last.out = <<>>
         /\ last.errs = IF last.in.exprKind = "Identifier"
                        THEN << <<"Untyped property access", last.in.ident>> >>
                        ELSE <<>>
    /\ (/\ last.op = "handlePropertyAccess"
        /\ tc
        /\ last.in.ident \in candidateProperties
        /\ last.in.symbol = NoSymbol) =>
         /\ last.ret = "false"
         /\ last.errs = << <<"Untyped property access", last.in.ident>> >>

\* a call x.push() where the checker has no symbol for the callee
C13_Witness ==
    /\ last.op = "maybeHandleCall"
    /\ UnresolvedCandidate(last.in)
    /\ last.in.exprKind = "PropertyAccessExpression"
    /\ last.in.ident = "push"
    /\ last.resolves = 1
    /\ last.errs = <<>>

\* the one error getFileAndName reports for a symbol without declarations
NoDeclarations(s) == << <<"no declarations for symbol", symtab[s].name>> >>

\* the symbol has no declaration after its aliases are followed
Undeclared(s) ==
    LET T == symtab[followAliases(s)]
    IN  T.valueDeclaration = <<>> /\ T.declarations = <<>>

\* C14: getFileAndName takes the file of the value declaration if there is one,
\* else of the first declaration; with neither it reports one error and returns
\* null, and then maybeHandleCall and handlePropertyAccess return a false value
\* and invoke no rule, shouldEmitNew returns true and visitTypeName emits the
\* identifier.
C14_NoDeclaration ==
    /\ last.op = "getFileAndName" =>
         LET T == symtab[followAliases(last.in)]
         IN  IF T.valueDeclaration # <<>>
             THEN /\ last.aux.found /\ last.errs = <<>>
                  /\ last.aux.fileName = canonicalFileName(T.valueDeclaration[1])
             ELSE IF T.declarations # <<>>
                  THEN /\ last.aux.found /\ last.errs = <<>>
                       /\ last.aux.fileName = canonicalFileName(T.declarations[1])
                  ELSE /\ last.ret = "null" /\ last.aux = NotFound
                       /\ last.errs = NoDeclarations(last.in)
    /\ (/\ last.op \in {"maybeHandleCall", "shouldEmitNew"}
        /\ Understood(last.in) /\ Undeclared(last.in.symbol)) =>
         /\ last.errs = NoDeclarations(last.in.symbol)
         /\ last.rules = <<>> /\ last.out = <<>>
         /\ last.op = "maybeHandleCall" => last.ret \in {"false", "null", "undefined"}
         /\ last.op = "shouldEmitNew" => last.ret = "true"
    /\ (/\ last.op = "handlePropertyAccess" /\ tc
        /\ last.in.ident \in candidateProperties
        /\ last.in.symbol # NoSymbol /\ Undeclared(last.in.symbol)) =>
         /\ last.errs = NoDeclarations(last.in.symbol)
         /\ last.rules = <<>> /\ last.out = <<>>
         /\ last.ret \in {"false", "null", "undefined"}
    /\ (/\ last.op = "visitTypeName" /\ tc /\ last.in.kind = "Identifier"
        /\ ~last.aux.generic
        /\ last.in.ident \in candidateTypes
        /\ last.in.symbol # NoSymbol /\ Undeclared(last.in.symbol)) =>
         /\ last.errs = NoDeclarations(last.in.symbol)
         /\ last.rules = <<>>
         /\ last.out = <<last.in.ident>>

\* the type name Array, whose symbol has no declaration, is emitted as it is
C14_Witness ==
    /\ last.op = "visitTypeName"
    /\ last.in.symbol = "Array@orphan"
    /\ last.out = <<"Array">>
    /\ Len(last.errs) = 1

PlainKinds == {"PropertyDeclaration", "PropertySignature"}

\* the members of a type node that are plain properties, and the others
PlainMembers(tn) == SelectSeq(tn.members, LAMBDA d : d.kind \in PlainKinds)

OtherMembers(tn) == SelectSeq(tn.members, LAMBDA d : d.kind \notin PlainKinds)

\* C15: every entry of the map resolvePropertyTypes returns is a property
\* declaration or a property signature.  With a type checker, every member of
\* the type that is declared as anything else gets one 'must be a property'
\* error and no entry, and every plain property has its entry; without a type
\* checker no type is resolved and no error is reported.
C15_OnlyPlainProperties ==
    last.op = "resolvePropertyTypes" =>
      LET tn == last.in
          res == last.aux
      IN  /\ \A k \in DOMAIN res : res[k].kind \in PlainKinds /\ res[k].name = k
          /\ tc => /\ last.errs = [i \in 1..Len(OtherMembers(tn)) |->
                                     <<mustBeProperty, OtherMembers(tn)[i].name>>]
                   /\ DOMAIN res = { PlainMembers(tn)[i].name :
                                       i \in 1..Len(PlainMembers(tn)) }
                   /\ \A i \in 1..Len(PlainMembers(tn)) :
                        res[PlainMembers(tn)[i].name] = PlainMembers(tn)[i]
          /\ ~tc => last.errs = <<>>

\* a class with a property x and a method y: x is returned, y is an error
C15_Witness ==
    /\ last.op = "resolvePropertyTypes"
    /\ tc
    /\ last.in.kind = "TypeReference"
    /\ Len(last.in.members) = 2
    /\ last.in.members[2].kind = "MethodDeclaration"
    /\ DOMAIN last.aux = {"x"}
    /\ Len(last.errs) = 1

NamingErrors ==
    { "private members must be prefixed with \"_\"",
      "public members must not be prefixed with \"_\"" }

\* C16: for every declaration with a name that the emitter visits, with the
\* enforcement of the naming convention on, a naming error is reported exactly
\* when one of 'is private' and 'begins with an underscore' holds without the
\* other; with the enforcement off none is reported; the name is emitted as it
\* is.
C16_Claim ==
    (/\ last.op \in {"visitNode", "visitProperty"}
     /\ last.op = "visitProperty" => ~last.in.isParameter) =>
      LET decl == IF last.op = "visitProperty" THEN last.in.decl ELSE last.in
          isPrivate == "Private" \in decl.modifiers
          matchesPrivate == decl.name = "_foo"
          reported == \E i \in 1..Len(last.errs) : last.errs[i][1] \in NamingErrors
      IN  decl.name \in {"foo", "_foo"} =>
            /\ enforceUnderscoreConventions => (reported <=> (isPrivate # matchesPrivate))
            /\ ~enforceUnderscoreConventions => ~reported
            /\ HasTok(last.out, decl.name)

\* C17: the tables of call, property and type name rules and of replaced news,
\* and the two candidate sets, are in every reachable state what the
\* construction made them, whatever was called since.
C17_TablesReadOnly ==
    /\ tables = registry
    /\ candidateProperties = constructor.candidateProperties
    /\ candidateTypes = constructor.candidateTypes

\* a rule has just rewritten a call inside a generic function-like
C17_Witness ==
    /\ last.op = "maybeHandleCall"
    /\ last.ret = "true"
    /\ last.rules # <<>>
    /\ genericMethodDeclDepth > 0
    /\ tables.callHandlers = callHandlers
    /\ "then" \in candidateProperties

\* C18: the rule of the Promise constructor emits the whole construction, and
\* its key is marked in callHandlerReplaceNew in every module whose call
\* handlers have it, so shouldEmitNew returns false for every new expression
\* which that rule handles.
C18_Claim ==
    /\ \A f \in DOMAIN tables.callHandlers :
         Promise_ \in tables.callHandlers[f] =>
           /\ f \in DOMAIN tables.callHandlerReplaceNew
           /\ Promise_ \in DOMAIN tables.callHandlerReplaceNew[f]
           /\ tables.callHandlerReplaceNew[f][Promise_]
    /\ (/\ last.op = "shouldEmitNew"
        /\ last.in.kind = "NewExpression"
        /\ Understood(last.in)
        /\ maybeHandleCall(last.in).rules # <<>>
        /\ maybeHandleCall(last.in).rules[1][2] = Promise_) =>
         last.ret = "false"

\* C19: every call of getFileAndName returns, with a key or null, also on a
\* chain of aliases with a cycle.
C19_Claim == locating.active ~> ~locating.active

\* C20: while the return type, the parameters or the body of a function-like
\* with type parameters are emitted, the depth has been incremented for it:
\* entering such a function-like adds one to the depth, and the depth is the
\* number of function-likes with type parameters whose visit is in progress.
C20_Claim ==
    /\ (last.op = "enterFunctionLike" /\ last.in.typeParameters) =>
         last.aux.after = last.aux.before + 1
    /\ genericMethodDeclDepth =
         Cardinality({ i \in 1..Len(stack) : stack[i].fn.typeParameters })

\* C21: a type whose symbol has no declaration does not abort the translation:
\* isNamedType reports the error and returns false, and the rule Array.concat
\* that called it emits its whole text and returns.
C21_Claim ==
    /\ (last.op = "isNamedType" /\ last.in.typeSymbol # NoSymbol
          /\ ~getFileAndName(last.in.typeSymbol).loc.found) =>
         (last.ret = "false" /\ Len(last.errs) = 1)
    /\ last.op = "Array.concat" =>
         /\ last.ret = "undefined"
         /\ last.out[Len(last.out)] = ")"
         /\ Len(last.out) = 4 + 3 * Len(last.in)
         /\ mode = "run"

\* whether the table m (a module to its qualified names) has a rule for what
\* symbol s is after its aliases
Registered(s, m) ==
    LET loc == getFileAndName(s).loc
    IN  loc.found /\ loc.fileName \in DOMAIN m /\ loc.qname \in m[loc.fileName]

\* the key of symbol s, as an operation records the rule it used
RuleOf(s) ==
    LET loc == getFileAndName(s).loc IN << <<loc.fileName, loc.qname>> >>

\* C22: the candidate sets reject no name that has a rule: when the symbol of
\* a callee, of a property name or of a type name is, after its aliases, a key
\* of the operation's table, the text of the name is a candidate and the rule
\* is found, also when the name is a local alias that reads differently.
C22_Claim ==
    /\ (/\ last.op = "maybeHandleCall" /\ tc
        /\ CalleeIsName(last.in) /\ last.in.symbol # NoSymbol
        /\ Registered(last.in.symbol, tables.callHandlers)) =>
         (last.in.ident \in candidateProperties /\ last.rules = RuleOf(last.in.symbol))
    /\ (/\ last.op = "handlePropertyAccess" /\ tc
        /\ last.in.symbol # NoSymbol
        /\ Registered(last.in.symbol, tables.propertyHandlers)) =>
         (last.in.ident \in candidateProperties /\ last.rules = RuleOf(last.in.symbol))
    /\ (/\ last.op = "visitTypeName" /\ tc
        /\ last.in.kind = "Identifier" /\ ~last.aux.generic
        /\ last.in.symbol # NoSymbol
        /\ Registered(last.in.symbol,
                      [f \in DOMAIN tables.TS_TO_DART_TYPENAMES |->
                         DOMAIN tables.TS_TO_DART_TYPENAMES[f]])) =>
         (last.in.ident \in candidateTypes /\ last.rules = RuleOf(last.in.symbol))

\* C23: when maybeHandleCall returns a false value, because no rule was found
\* or because the rule that was found declined, nothing has been emitted for
\* the call.
C23_NoOutputUnlessHandled ==
    (last.op = "maybeHandleCall" /\ ~Truthy(last.ret)) => last.out = <<>>

\* the Map rule of the facade was found and declined, outside a const
\* expression, and so did the Promise rule for a call without new
C23_Witness ==
    /\ last.op = "maybeHandleCall"
    /\ last.ret = "false"
    /\ last.rules \in { << <<M_collection, <<"Map">> >> >>,
                        << <<M_es6_promise, Promise_>> >> }
    /\ last.out = <<>>

\* the erasure form dynamic/*=T*/
Erasure(out) == Len(out) = 3 /\ out[1] = "dynamic/*=" /\ out[3] = "*/"

\* C24: the depth is never negative; visitTypeName emits the erasure form
\* dynamic/*=T*/ only while the depth is positive, and at depth 0 it neither
\* emits that form nor asks the checker for the type of the name.
C24_ErasureOnlyInGenericScope ==
    /\ genericMethodDeclDepth >= 0
    /\ last.op = "visitTypeName" =>
         /\ Erasure(last.out) => genericMethodDeclDepth > 0
         /\ genericMethodDeclDepth = 0 =>
              (~last.aux.generic /\ last.aux.typeQueries = 0)

\* with a checker, outside every generic function-like, the name of a type
\* parameter of a function declaration is emitted as it reads
C24_Witness ==
    /\ last.op = "visitTypeName"
    /\ tc
    /\ genericMethodDeclDepth = 0
    /\ last.in.typeParam = "function"
    /\ last.out = <<last.in.ident>>

=============================================================================
